---------------------------- MODULE Spec2Model ----------------------------
(***************************************************************************)
(* ML training pipeline: the Orchestrator's run_full_pipeline state        *)
(* machine (src/src/pipeline/orchestrator.py), the training stage's own    *)
(* registry writes (src/src/models/train_model.py), the ModelRegistry      *)
(* operations (src/src/pipeline/model_registry.py) and the ModelValidator  *)
(* (src/src/pipeline/validator.py).                                        *)
(*                                                                         *)
(* Real-valued metrics are scaled to integers: R2 and MAPE are in          *)
(* hundredths (0.85 is 85), MAE and RMSE are in currency units, latency    *)
(* is in milliseconds.                                                     *)
(***************************************************************************)
EXTENDS Integers, Sequences, FiniteSets, TLC

\* ------------------------------------------------------------------ bounds

\* Versions the registry may hold in all; a create call beyond it fails, as a
\* registry call may at any time.
MaxVersions == 3

\* keep_latest arguments tried for archive_old_versions: 0..MaxKeep.
MaxKeep == 1

\* --------------------------------------------------------- program constants

\* orchestrator.py:179 and validator.py:37, 0.85 in hundredths.
MinR2Score == 85

\* orchestrator.py:180 and validator.py:38.
MaxMae == 15000

\* orchestrator.py:181 and validator.py:39.
MaxRmse == 20000

\* validator.py:40, 0.15 in hundredths.
MaxMape == 15

\* validator.py:41.
MinSamples == 100

\* validator.py:42.
MaxPredictionTimeMs == 100

\* The five stages in the order run_full_pipeline calls them.
StageOrder ==
    << "data_processing", "feature_engineering", "model_training",
       "model_validation", "model_registration" >>

\* The program position that runs each stage.
PcOrder ==
    << "DataProcessing", "FeatureEngineering", "ModelTraining",
       "Validating", "Registering" >>

\* Registered-model name the Orchestrator registers under.
OrchestratorModelName == "house_price_predictor"

\* File name the Orchestrator loads the trained model from, without ".pkl".
OrchestratorModelFile == "house_price_model"

\* model.name values of the configuration file: the training stage registers
\* under it and saves <name>.pkl.
ConfigNames == {"house_price_model", "house_price_predictor"}

ModelNames == {"house_price_model", "house_price_predictor"}

\* MLflow's stage enumeration.
Stages == {"None", "Staging", "Production", "Archived"}

\* Row counts of the featured dataset read back by a validation.
DataSizes == {4, 499, 500}

\* Row counts of the dataset handed to the validate command.
TestDataSizes == {4, 10, 499, 500}

R2Values == {80, 85, 90}
MaeValues == {10000, 15000, 16000}
RmseValues == {14000, 21000}
MapeValues == {10, 15, 20}
TimeValues == {50, 150}

\* What model.predict returns for the split, shown at two of its rows, the
\* first time it is called on it ...
FirstPredictions == {<< 300000, 450000 >>}

\* ... and the second time: the same, one row off, both rows off.
RepeatPredictions ==
    {<< 300000, 450000 >>, << 300000, 450003 >>, << 299995, 450002 >>}

\* What a loaded model does on a held-out split: its metrics, what two
\* predict calls on the same input return, and its mean single-prediction
\* latency.
Profiles ==
    [ r2 : R2Values, mae : MaeValues, rmse : RmseValues, mape : MapeValues,
      pred1 : FirstPredictions, pred2 : RepeatPredictions,
      mean_time_ms : TimeValues ]

Nominal ==
    [ r2 |-> 90, mae |-> 10000, rmse |-> 14000, mape |-> 10,
      pred1 |-> << 300000, 450000 >>, pred2 |-> << 300000, 450000 >>,
      mean_time_ms |-> 50 ]

\* Profiles a pipeline run's validation draws from: the nominal model and the
\* models off in one respect.
PipelineProfiles ==
    { Nominal,
      [Nominal EXCEPT !.r2 = 80],
      [Nominal EXCEPT !.mae = 16000],
      [Nominal EXCEPT !.rmse = 21000],
      [Nominal EXCEPT !.mape = 20],
      [Nominal EXCEPT !.pred2 = << 300000, 450003 >>],
      [Nominal EXCEPT !.mean_time_ms = 150] }

\* ------------------------------------------------------------------- state

VARIABLES
    pc,                \* position of the running command, "NotStarted" = none
    pipeline_results,  \* the run record (a dict)
    invoked,           \* stage operations called in the current run, in order
    evaluated,         \* what the validation in progress measured, and how it ended
    written,           \* registry writes of the current run: <<name, version, stage>>
    config,            \* the loaded configuration: [name]
    model_file,        \* models_dir/house_price_model.pkl: absent, stale, fresh
    registry,          \* MLflow registry: name -> sequence of versions
    last_call,         \* the registry-facing call just made and what it returned
    vpc,               \* position of the validate command
    validator,         \* the constructed ModelValidator
    report,            \* what run_all_validations returned
    frames,            \* the data frames in memory, by the name that holds them
    battery            \* the validation step just run on them and its results

vars ==
    << pc, pipeline_results, invoked, evaluated, written, config, model_file,
       registry, last_call, vpc, validator, report, frames, battery >>

\* The state of the commands.
commandVars ==
    << pc, pipeline_results, invoked, evaluated, written, config, model_file,
       registry, last_call, vpc, validator, report >>

batteryVars == << frames, battery >>

runVars == << pipeline_results, invoked, evaluated, written, config, model_file >>

validatorVars == << vpc, validator, report >>

\* ------------------------------------------------------- MLflow registry

\* A version as created: its stage.  Version tags are write-only here and are
\* kept with the call that set them.
NoVersion == [stage |-> "None"]

EmptyRegistry == [n \in ModelNames |-> << >>]

Max(S) == CHOOSE x \in S : \A y \in S : y <= x

VersionsIn(reg, name, stage) ==
    {v \in DOMAIN reg[name] : reg[name][v].stage = stage}

\* Mutant: the stage filter is dropped and the first version is taken.
GetFirstVersion(reg, name, stage) ==
    IF reg[name] = << >> THEN << >> ELSE << 1 >>

\* Mutant: the oldest version in the stage is taken.
GetOldestVersion(reg, name, stage) ==
    IF VersionsIn(reg, name, stage) = {} THEN << >>
    ELSE << CHOOSE v \in VersionsIn(reg, name, stage) :
                \A w \in VersionsIn(reg, name, stage) : v <= w >>

\* client.get_latest_versions(name, stages=[stage]): the highest-numbered
\* version in that stage, as a list of at most one element.
GetLatestVersions(reg, name, stage) ==
    IF VersionsIn(reg, name, stage) = {} THEN << >>
    ELSE << Max(VersionsIn(reg, name, stage)) >>

\* log_model(registered_model_name=...) / create_model_version: a new version
\* numbered after the last, in stage None.
CreateModelVersion(reg, name) ==
    [reg EXCEPT ![name] = Append(@, NoVersion)]

RECURSIVE TotalVersions(_, _)
TotalVersions(reg, names) ==
    IF names = {} THEN 0
    ELSE LET n == CHOOSE x \in names : TRUE
         IN  Len(reg[n]) + TotalVersions(reg, names \ {n})

CanCreate(reg, name) == TotalVersions(reg, ModelNames) < MaxVersions

\* transition_model_version_stage raises for an unknown version, and for
\* archive_existing_versions with a target other than Staging or Production.
TransitionAllowed(reg, name, v, stage, archive) ==
    /\ v \in DOMAIN reg[name]
    /\ stage \in Stages
    /\ archive => stage \in {"Staging", "Production"}

TransitionStage(reg, name, v, stage, archive) ==
    [reg EXCEPT ![name] =
        [i \in DOMAIN @ |->
            IF i = v THEN [@[i] EXCEPT !.stage = stage]
            ELSE IF archive /\ @[i].stage = stage
                 THEN [@[i] EXCEPT !.stage = "Archived"]
                 ELSE @[i]]]

\* The validation_status tag set_model_version_tag is given.
ValidationStatusTag(passed) == IF passed THEN "passed" ELSE "failed"

NoCall == [op |-> "none", name |-> "", version |-> 0, stage |-> "", created |-> 0]

\* ------------------------------------------------------------ Orchestrator

Index(stage) == CHOOSE i \in 1..Len(StageOrder) : StageOrder[i] = stage

\* pipeline_results as run_full_pipeline creates it; a timestamp is an opaque
\* reading of the clock.
NewPipelineResults ==
    [ start_time |-> "now",
      steps_completed |-> << >>,
      steps_failed |-> << >>,
      overall_success |-> FALSE ]

StepCompleted(res, stage) ==
    [res EXCEPT !.steps_completed = Append(@, stage)]

\* Mutant: a failed stage is also listed as completed.
StepFailedAlsoCompleted(res, stage) ==
    [res EXCEPT !.steps_failed = Append(@, stage),
                !.steps_completed = Append(@, stage)]

StepFailed(res, stage) ==
    [res EXCEPT !.steps_failed = Append(@, stage)]

\* Mutant: a reported failure does not end the run.
AfterStageNoHalt(stage, success) ==
    IF Index(stage) < Len(PcOrder) THEN PcOrder[Index(stage) + 1]
    ELSE "Returned"

\* Mutant: a failed stage is run again.
AfterStageRetry(stage, success) ==
    IF ~success THEN PcOrder[Index(stage)]
    ELSE IF Index(stage) < Len(PcOrder) THEN PcOrder[Index(stage) + 1]
    ELSE "Returned"

\* Where run_full_pipeline goes after a stage reported success or failure:
\* on to the next stage, or out through `return pipeline_results`.
AfterStage(stage, success) ==
    IF ~success THEN "Returned"
    ELSE IF Index(stage) < Len(PcOrder) THEN PcOrder[Index(stage) + 1]
    ELSE "Returned"

\* No command is running.
Idle == pc = "NotStarted" /\ vpc = "idle"

NoRecord ==
    [steps_completed |-> << >>, steps_failed |-> << >>, overall_success |-> FALSE]

NoConfig == [name |-> ""]

\* The `run` command: MLPipelineOrchestrator.__init__ loads the configuration
\* and run_full_pipeline creates the run record.
StartRun ==
    /\ Idle
    /\ pc' = "DataProcessing"
    /\ pipeline_results' = NewPipelineResults
    /\ invoked' = << >>
    /\ evaluated' = [n_samples |-> 0]
    /\ written' = {}
    /\ \E name \in ConfigNames : config' = [name |-> name]
    /\ UNCHANGED << model_file, registry, last_call, validatorVars, batteryVars >>

NoValidator == [loaded |-> FALSE]

\* The command's process ends: its objects are gone, the registry and the
\* files stay; the model file is from now on one an earlier command left.
Exit ==
    /\ pc \in {"Returned", "Raised", "CliDone"} \/ vpc \in {"reported", "raised"}
    /\ pc' = "NotStarted"
    /\ vpc' = "idle"
    /\ validator' = NoValidator
    /\ report' = << >>
    /\ pipeline_results' = NoRecord
    /\ invoked' = << >>
    /\ evaluated' = [n_samples |-> 0]
    /\ written' = {}
    /\ config' = NoConfig
    /\ last_call' = NoCall
    /\ model_file' = IF model_file = "absent" THEN "absent" ELSE "stale"
    /\ UNCHANGED << registry, batteryVars >>

\* A subprocess stage: True when the child exits 0, False on
\* CalledProcessError, and any other exception of subprocess.run leaves
\* run_full_pipeline uncaught.
StageOutcomes == {"ok", "failed", "error"}

RecordStage(stage, outcome) ==
    /\ invoked' = Append(invoked, stage)
    /\ IF outcome = "error"
       THEN /\ pc' = "Raised"
            /\ UNCHANGED pipeline_results
       ELSE /\ pc' = AfterStage(stage, outcome = "ok")
            /\ pipeline_results' =
                 IF outcome = "ok" THEN StepCompleted(pipeline_results, stage)
                 ELSE StepFailed(pipeline_results, stage)

DataProcessing ==
    /\ pc = "DataProcessing"
    /\ \E outcome \in StageOutcomes : RecordStage("data_processing", outcome)
    /\ UNCHANGED << evaluated, written, config, model_file, registry,
                    last_call, validatorVars, batteryVars >>

FeatureEngineering ==
    /\ pc = "FeatureEngineering"
    /\ \E outcome \in StageOutcomes : RecordStage("feature_engineering", outcome)
    /\ UNCHANGED << evaluated, written, config, model_file, registry,
                    last_call, validatorVars, batteryVars >>

\* train_model.py main(): inside the MLflow run it creates a version of
\* config.name and moves it to Staging (default archive_existing_versions =
\* False); an error in either call is caught and training goes on.
RegistryOutcomes == {"none", "created", "staged"}

TrainingRegistry(reg, name, regOutcome) ==
    IF regOutcome = "none" THEN reg
    ELSE IF regOutcome = "created" THEN CreateModelVersion(reg, name)
    ELSE TransitionStage(CreateModelVersion(reg, name), name,
                         Len(reg[name]) + 1, "Staging", FALSE)

\* The registry writes a call made, for the run's log.
Writes(name, created, staged) ==
    (IF created # 0 THEN {<< name, created, "None" >>} ELSE {})
    \cup (IF staged # 0 THEN {<< name, staged, "Staging" >>} ELSE {})

\* joblib.dump(model, f"{models_dir}/{model_name}.pkl"): the file the
\* Orchestrator later loads is written only when config.name names it.
SaveModel(file, name) ==
    IF name = OrchestratorModelFile THEN "fresh" ELSE file

ModelTraining ==
    /\ pc = "ModelTraining"
    /\ \E outcome \in StageOutcomes, regOutcome \in RegistryOutcomes :
         /\ outcome = "error" => regOutcome = "none"
         /\ regOutcome # "none" => CanCreate(registry, config.name)
         /\ RecordStage("model_training", outcome)
         /\ registry' = TrainingRegistry(registry, config.name, regOutcome)
         /\ written' = written \cup
              Writes(config.name,
                     IF regOutcome = "none" THEN 0 ELSE Len(registry[config.name]) + 1,
                     IF regOutcome = "staged" THEN Len(registry[config.name]) + 1 ELSE 0)
         /\ model_file' = IF outcome = "ok" THEN SaveModel(model_file, config.name)
                          ELSE model_file
    /\ UNCHANGED << evaluated, config, last_call, validatorVars, batteryVars >>

\* int(len(data) * 0.2)
SplitSize(n) == n \div 5

\* The quality gate of validate_model.
OrchestratorPassed(r2, mae, rmse) ==
    /\ r2 >= MinR2Score
    /\ mae <= MaxMae
    /\ rmse <= MaxRmse

ValidationError == [validation_passed |-> FALSE, error |-> "error"]

\* What validate_model finds of the model and preprocessor files: one is
\* not there, joblib.load raises on one, or both load.
Artifacts(file, loadable) ==
    IF file = "absent" THEN "missing"
    ELSE IF ~loadable THEN "unloadable"
    ELSE "loaded"

\* Mutant: the artifacts are not checked before the metrics are taken.
ValidateModelUnchecked(file, loadable, n, p) ==
    IF SplitSize(n) = 0
    THEN ValidationError
    ELSE [ mae |-> p.mae,
           r2_score |-> p.r2,
           rmse |-> p.rmse,
           validation_samples |-> SplitSize(n),
           validation_passed |-> OrchestratorPassed(p.r2, p.mae, p.rmse) ]

\* validate_model: any exception (a missing or unloadable artifact, an empty
\* split the model cannot predict on) yields the error result.
ValidateModel(file, loadable, n, p) ==
    IF file = "absent" \/ ~loadable \/ SplitSize(n) = 0
    THEN ValidationError
    ELSE [ mae |-> p.mae,
           r2_score |-> p.r2,
           rmse |-> p.rmse,
           validation_samples |-> SplitSize(n),
           validation_passed |-> OrchestratorPassed(p.r2, p.mae, p.rmse) ]

\* dict.get(key, default)
Get(d, key, default) == IF key \in DOMAIN d THEN d[key] ELSE default

Validating ==
    /\ pc = "Validating"
    /\ \E loadable \in BOOLEAN, n \in DataSizes, p \in PipelineProfiles :
         LET validation_results == ValidateModel(model_file, loadable, n, p)
             passed == Get(validation_results, "validation_passed", FALSE)
             stored == [k \in DOMAIN pipeline_results \cup {"validation_results"} |->
                          IF k = "validation_results" THEN validation_results
                          ELSE pipeline_results[k]]
         IN  /\ invoked' = Append(invoked, "model_validation")
             /\ pc' = AfterStage("model_validation", passed)
             /\ pipeline_results' =
                  IF passed THEN StepCompleted(stored, "model_validation")
                  ELSE StepFailed(stored, "model_validation")
             /\ evaluated' =
                  IF "error" \in DOMAIN validation_results
                  THEN [ n_samples |-> 0,
                         artifacts |-> Artifacts(model_file, loadable) ]
                  ELSE [ n_samples |-> SplitSize(n), profile |-> p,
                         artifacts |-> Artifacts(model_file, loadable) ]
    /\ UNCHANGED << written, config, model_file, registry, last_call,
                    validatorVars, batteryVars >>

\* Mutant: the successful record does not carry the version.
RunSucceededUnversioned(res, model_version) ==
    LET done == StepCompleted(res, "model_registration")
    IN  [k \in DOMAIN done \cup {"end_time"} |->
            IF k = "end_time" THEN "now"
            ELSE IF k = "overall_success" THEN TRUE
            ELSE done[k]]

\* The record of a run whose registration returned a version: the stage is
\* completed, the version and the end time are stored, overall_success is set.
RunSucceeded(res, model_version) ==
    LET done == StepCompleted(res, "model_registration")
    IN  [k \in DOMAIN done \cup {"model_version", "end_time"} |->
            IF k = "model_version" THEN model_version
            ELSE IF k = "end_time" THEN "now"
            ELSE IF k = "overall_success" THEN TRUE
            ELSE done[k]]

\* Mutant: a failed registration undoes what it wrote.
RegistrationRollback(regNow, regAtCall) == regAtCall

\* What an exception inside register_model_in_mlflow leaves in the registry:
\* `except` only logs and returns None.
RegistrationFailure(regNow, regAtCall) == regNow

RegistrationOutcomes == {"ok", "fail_before_log", "fail_after_log"}

\* register_model_in_mlflow past its validation_passed guard: log_model
\* creates the version, the latest version in stage None is moved to Staging.
RegisterInMlflow(reg, outcome) ==
    LET name == OrchestratorModelName
        logged == CreateModelVersion(reg, name)
        latest == GetLatestVersions(logged, name, "None")
    IN  IF outcome = "fail_before_log"
        THEN [registry |-> RegistrationFailure(reg, reg), version |-> 0, created |-> 0]
        ELSE IF outcome = "fail_after_log" \/ latest = << >>
        THEN [registry |-> RegistrationFailure(logged, reg), version |-> 0,
              created |-> Len(logged[name])]
        ELSE [registry |-> TransitionStage(logged, name, latest[1], "Staging", FALSE),
              version |-> latest[1], created |-> Len(logged[name])]

Registering ==
    /\ pc = "Registering"
    /\ \E outcome \in RegistrationOutcomes :
         /\ outcome # "fail_before_log" => CanCreate(registry, OrchestratorModelName)
         /\ LET validation_results == pipeline_results.validation_results
                guarded == ~Get(validation_results, "validation_passed", FALSE)
                r == IF guarded
                     THEN [registry |-> registry, version |-> 0, created |-> 0]
                     ELSE RegisterInMlflow(registry, outcome)
            IN  /\ invoked' = Append(invoked, "model_registration")
                /\ registry' = r.registry
                /\ written' = written \cup
                     Writes(OrchestratorModelName, r.created, r.version)
                /\ last_call' = [ op |-> "register_model_in_mlflow",
                                  name |-> OrchestratorModelName,
                                  version |-> r.version, stage |-> "Staging",
                                  created |-> r.created ]
                /\ pc' = AfterStage("model_registration", r.version # 0)
                /\ pipeline_results' =
                     IF r.version # 0
                     THEN RunSucceeded(pipeline_results, r.version)
                     ELSE StepFailed(pipeline_results, "model_registration")
    /\ UNCHANGED << evaluated, config, model_file, validatorVars, batteryVars >>

\* ------------------------------------------------------------ ModelRegistry

PromoteOutcomes == {"ok", "transition_fails", "update_fails"}

\* Mutant: the promotion leaves the stage's earlier holders where they are.
PromoteTransitionNoArchive(reg, name, v, stage) ==
    TransitionStage(reg, name, v, stage, FALSE)

\* promote_model's stage change: archive_existing_versions=True.
PromoteTransition(reg, name, v, stage) ==
    TransitionStage(reg, name, v, stage, TRUE)

\* promote_model: the transition, then the description update; an exception
\* in either returns False, and a transition already made stays.
PromoteModelCall(reg, name, v, stage, outcome) ==
    IF ~TransitionAllowed(reg, name, v, stage, TRUE) \/ outcome = "transition_fails"
    THEN [registry |-> reg, result |-> FALSE]
    ELSE [registry |-> PromoteTransition(reg, name, v, stage),
          result |-> (outcome = "ok")]

PromoteModel ==
    /\ Idle
    /\ \E name \in ModelNames, v \in 1..MaxVersions, stage \in Stages,
          outcome \in PromoteOutcomes :
         LET r == PromoteModelCall(registry, name, v, stage, outcome)
         IN  /\ registry' = r.registry
             /\ last_call' = [ op |-> "promote_model", name |-> name,
                               version |-> v, stage |-> stage,
                               before |-> registry[name],
                               result |-> r.result ]
    /\ pc' = "CliDone"
    /\ UNCHANGED << runVars, validatorVars, batteryVars >>

RegisterOutcomes ==
    {"ok", "fail_before_log", "fail_after_log", "fail_after_tag", "promote_fails"}

\* validation_results.get('validation_passed', False), as register_model
\* reads it for the tag and for the promotion.
ReadValidationPassed(validation_results) ==
    Get(validation_results, "validation_passed", FALSE)

\* register_model: log the model (a new version in stage None), tag the
\* latest version in stage None with validation_status, and promote it to
\* Staging when the validation passed.  promote_model's False is ignored.
RegisterModelCall(reg, name, validation_results, outcome) ==
    LET logged == CreateModelVersion(reg, name)
        latest == GetLatestVersions(logged, name, "None")
        passed == ReadValidationPassed(validation_results)
        tag == << latest[1], ValidationStatusTag(passed) >>
        promoted == PromoteModelCall(logged, name, latest[1], "Staging",
                       IF outcome = "promote_fails" THEN "transition_fails"
                       ELSE "ok").registry
    IN  IF outcome = "fail_before_log"
        THEN [registry |-> reg, version |-> 0, created |-> 0, tag |-> << >>]
        ELSE IF outcome = "fail_after_log" \/ latest = << >>
        THEN [registry |-> logged, version |-> 0, created |-> Len(logged[name]),
              tag |-> << >>]
        ELSE IF outcome = "fail_after_tag"
        THEN [registry |-> logged, version |-> 0, created |-> Len(logged[name]),
              tag |-> tag]
        ELSE [registry |-> IF passed THEN promoted ELSE logged,
              version |-> latest[1], created |-> Len(logged[name]),
              tag |-> tag]

\* A register_model call with one of the dicts in args as validation_results.
RegisterModelWith(args) ==
    /\ pc = "NotStarted"
    /\ \E name \in ModelNames, validation_results \in args,
          outcome \in RegisterOutcomes :
         /\ outcome # "fail_before_log" => CanCreate(registry, name)
         /\ LET r == RegisterModelCall(registry, name, validation_results, outcome)
            IN  /\ registry' = r.registry
                /\ last_call' = [ op |-> "register_model", name |-> name,
                                  version |-> r.version, stage |-> "Staging",
                                  created |-> r.created, tag |-> r.tag ]
    /\ pc' = "CliDone"
    /\ UNCHANGED << runVars, validatorVars, batteryVars >>

\* register_model given a dict with a top-level validation_passed entry, as
\* the Orchestrator's validate_model returns it.
RegisterModel ==
    /\ vpc = "idle"
    /\ RegisterModelWith({[validation_passed |-> b] : b \in BOOLEAN})

\* list_model_versions: version numbers, highest first; [] when a registry
\* call raises.
ListModelVersions(reg, name, listing_ok) ==
    LET n == Len(reg[name])
    IN  IF listing_ok THEN [i \in 1..n |-> n + 1 - i] ELSE << >>

ProtectedStages == {"Production", "Staging"}

\* The loop of archive_old_versions over the listed versions: protected
\* versions are skipped, the first keep_latest others are kept.
RECURSIVE VersionsToArchive(_, _, _, _, _)
VersionsToArchive(reg, name, versions, keep_latest, kept_count) ==
    IF versions = << >> THEN << >>
    ELSE LET version == Head(versions)
         IN  IF reg[name][version].stage \in ProtectedStages
             THEN VersionsToArchive(reg, name, Tail(versions), keep_latest, kept_count)
             ELSE IF kept_count >= keep_latest
             THEN << version >> \o VersionsToArchive(reg, name, Tail(versions),
                                                     keep_latest, kept_count)
             ELSE VersionsToArchive(reg, name, Tail(versions), keep_latest,
                                    kept_count + 1)

RECURSIVE ArchiveAll(_, _, _)
ArchiveAll(reg, name, versions) ==
    IF versions = << >> THEN reg
    ELSE ArchiveAll(TransitionStage(reg, name, Head(versions), "Archived", FALSE),
                    name, Tail(versions))

\* archive_old_versions: the transitions run in list order; the first one
\* that raises ends the call with False, the earlier ones stay.
ArchiveOldVersionsCall(reg, name, keep_latest, listing_ok, done) ==
    LET versions == ListModelVersions(reg, name, listing_ok)
        versions_to_archive == VersionsToArchive(reg, name, versions, keep_latest, 0)
        k == IF done < Len(versions_to_archive) THEN done
             ELSE Len(versions_to_archive)
    IN  [ registry |-> ArchiveAll(reg, name, SubSeq(versions_to_archive, 1, k)),
          result |-> (k = Len(versions_to_archive)),
          to_archive |-> versions_to_archive ]

ArchiveOldVersions ==
    /\ Idle
    /\ \E name \in ModelNames, keep_latest \in 0..MaxKeep,
          listing_ok \in BOOLEAN, done \in 0..MaxVersions :
         LET r == ArchiveOldVersionsCall(registry, name, keep_latest, listing_ok, done)
         IN  /\ registry' = r.registry
             /\ last_call' = [ op |-> "archive_old_versions", name |-> name,
                               keep_latest |-> keep_latest,
                               listing_ok |-> listing_ok,
                               before |-> registry[name],
                               to_archive |-> r.to_archive,
                               result |-> r.result ]
    /\ pc' = "CliDone"
    /\ UNCHANGED << runVars, validatorVars, batteryVars >>

\* ----------------------------------------------------------- ModelValidator

\* ModelValidator.__init__: loads both artifacts and sets the thresholds.
Thresholds ==
    [ min_r2_score |-> MinR2Score, max_mae |-> MaxMae, max_rmse |-> MaxRmse,
      max_mape |-> MaxMape, min_samples |-> MinSamples,
      max_prediction_time_ms |-> MaxPredictionTimeMs ]

ValidatorInit ==
    /\ Idle
    /\ \E loadable \in BOOLEAN :
         IF loadable
         THEN /\ vpc' = "loaded"
              /\ validator' = [loaded |-> TRUE, thresholds |-> Thresholds]
         ELSE /\ vpc' = "raised"
              /\ UNCHANGED validator
    /\ UNCHANGED << pc, runVars, registry, last_call, report, batteryVars >>

\* all(performance_checks.values())
AllChecks(checks) == \A k \in DOMAIN checks : checks[k]

\* Mutant: the sample-size check is strict.
PerformanceChecksStrict(th, p, n) ==
    [ r2_check |-> p.r2 >= th.min_r2_score,
      mae_check |-> p.mae <= th.max_mae,
      rmse_check |-> p.rmse <= th.max_rmse,
      mape_check |-> p.mape <= th.max_mape,
      sample_size_check |-> n > th.min_samples ]

\* Mutant: the MAE check is missing.
PerformanceChecksNoMae(th, p, n) ==
    [ r2_check |-> p.r2 >= th.min_r2_score,
      mae_check |-> TRUE,
      rmse_check |-> p.rmse <= th.max_rmse,
      mape_check |-> p.mape <= th.max_mape,
      sample_size_check |-> n >= th.min_samples ]

PerformanceChecks(th, p, n) ==
    [ r2_check |-> p.r2 >= th.min_r2_score,
      mae_check |-> p.mae <= th.max_mae,
      rmse_check |-> p.rmse <= th.max_rmse,
      mape_check |-> p.mape <= th.max_mape,
      sample_size_check |-> n >= th.min_samples ]

\* performance_tests on a split of n rows the model scores p on.
PerformanceTests(th, p, n) ==
    [ mae |-> p.mae, rmse |-> p.rmse, r2_score |-> p.r2, mape |-> p.mape,
      n_samples |-> n,
      performance_checks |-> PerformanceChecks(th, p, n),
      all_performance_checks_passed |-> AllChecks(PerformanceChecks(th, p, n)) ]

\* What the data decides in the statistical and robustness batteries.
StatOutcomes ==
    [ is_normal : BOOLEAN, is_homoscedastic : BOOLEAN, no_autocorrelation : BOOLEAN ]

RobustOutcomes == {"robust", "fragile", "raise"}

\* stats.shapiro on fewer than three observations: it raises ValueError, or
\* (SciPy 1.14 and later) warns and returns NaN; the warning is filtered.
SmallSampleOutcomes == {"raise", "nan"}

\* statistical_tests on n residuals: nothing in it looks at n.  A NaN
\* p-value is not > 0.05; Durbin-Watson needs two residuals to be non-zero.
StatisticalTests(stat, n) ==
    [ residuals_normality |-> [is_normal |-> n >= 3 /\ stat.is_normal],
      homoscedasticity |-> [is_homoscedastic |-> n >= 3 /\ stat.is_homoscedastic],
      autocorrelation |-> [no_autocorrelation |-> n >= 2 /\ stat.no_autocorrelation] ]

RobustnessTests(robust) ==
    [ noise_robustness |-> [robust |-> robust = "robust"],
      missing_value_robustness |-> [robust |-> robust = "robust"] ]

Abs(x) == IF x < 0 THEN -x ELSE x

\* np.array_equal(a, b) for two arrays of one shape.
ArrayEqual(a, b) == \A i \in DOMAIN a : a[i] = b[i]

\* np.max(np.abs(a - b))
MaxAbsDifference(a, b) == Max({Abs(a[i] - b[i]) : i \in DOMAIN a})

\* Mutant: the difference is taken at the first row only.
PredictionConsistencyFirstRow(p) ==
    [ determinism |->
        [ identical_predictions |-> ArrayEqual(p.pred1, p.pred2),
          max_difference |-> Abs(p.pred1[1] - p.pred2[1]) ] ]

\* prediction_consistency_tests: two predict calls on the same input.
PredictionConsistencyTests(p) ==
    [ determinism |->
        [ identical_predictions |-> ArrayEqual(p.pred1, p.pred2),
          max_difference |->
              IF ~ArrayEqual(p.pred1, p.pred2)
              THEN MaxAbsDifference(p.pred1, p.pred2)
              ELSE 0 ] ]

\* performance_benchmarks: the mean of 100 single-row predictions.
PerformanceBenchmarks(th, p) ==
    [ single_prediction |->
        [ mean_time_ms |-> p.mean_time_ms,
          meets_threshold |-> p.mean_time_ms <= th.max_prediction_time_ms ] ]

\* Mutant: the statistical and robustness outcomes gate the verdict too.
OverallValidationGated(performance, statistical, robustness, consistency, benchmarks) ==
    LET performance_passed == performance.all_performance_checks_passed
        determinism_passed == consistency.determinism.identical_predictions
        speed_passed == benchmarks.single_prediction.meets_threshold
    IN  [ passed |-> /\ performance_passed /\ determinism_passed /\ speed_passed
                     /\ statistical.residuals_normality.is_normal
                     /\ robustness.noise_robustness.robust,
          performance_passed |-> performance_passed,
          determinism_passed |-> determinism_passed,
          speed_passed |-> speed_passed ]

\* The overall verdict of run_all_validations.
OverallValidation(performance, statistical, robustness, consistency, benchmarks) ==
    LET performance_passed == performance.all_performance_checks_passed
        determinism_passed == consistency.determinism.identical_predictions
        speed_passed == benchmarks.single_prediction.meets_threshold
    IN  [ passed |-> performance_passed /\ determinism_passed /\ speed_passed,
          performance_passed |-> performance_passed,
          determinism_passed |-> determinism_passed,
          speed_passed |-> speed_passed ]

\* The first battery to raise, in the order run_all_validations calls them,
\* or "none".  The model cannot predict on an empty split; the statistical
\* tests on fewer than three residuals do what the library does.
RaisingBattery(n, small, robust) ==
    IF n = 0 THEN "performance"
    ELSE IF n < 3 /\ small = "raise" THEN "statistical"
    ELSE IF robust = "raise" THEN "robustness"
    ELSE "none"

\* A battery that raises ends run_all_validations: nothing catches it.
BatteryRaises(n, small, robust) == RaisingBattery(n, small, robust) # "none"

ValidationReport(th, p, n, stat, robust) ==
    LET performance == PerformanceTests(th, p, n)
        statistical == StatisticalTests(stat, n)
        robustness == RobustnessTests(robust)
        consistency == PredictionConsistencyTests(p)
        benchmarks == PerformanceBenchmarks(th, p)
    IN  [ test_data_info |-> [n_samples |-> n],
          performance |-> performance,
          statistical |-> statistical,
          robustness |-> robustness,
          consistency |-> consistency,
          benchmarks |-> benchmarks,
          overall_validation |->
              OverallValidation(performance, statistical, robustness,
                                consistency, benchmarks) ]

RunAllValidations ==
    /\ vpc = "loaded"
    /\ \E rows \in TestDataSizes, p \in Profiles, stat \in StatOutcomes,
          small \in SmallSampleOutcomes, robust \in RobustOutcomes :
         LET n == SplitSize(rows)
         IN  /\ evaluated' = [ n_samples |-> n, profile |-> p,
                               raised |-> RaisingBattery(n, small, robust) ]
             /\ IF BatteryRaises(n, small, robust)
                THEN /\ vpc' = "raised"
                     /\ UNCHANGED report
                ELSE /\ vpc' = "reported"
                     /\ report' = ValidationReport(validator.thresholds, p, n,
                                                   stat, robust)
    /\ UNCHANGED << pc, pipeline_results, invoked, written, config, model_file,
                    registry, last_call, validator, batteryVars >>

\* register_model given the report run_all_validations returned.
RegisterReport ==
    /\ vpc = "reported"
    /\ RegisterModelWith({report})

\* ---------------------------------------------------- the validator's data

\* config.get('model', {}).get('target_variable', 'price')
TargetVariable == "price"

\* Column lists of the datasets tried; every column is numeric.
ColumnLists ==
    { << "sqft", "bedrooms", "price" >>,
      << "price", "bedrooms", "sqft" >>,
      << "bedrooms", "price" >> }

\* Row counts of the datasets tried.
RowCounts == {4, 10, 15, 20, 25, 50}

\* A data frame: the labels of its rows in order, its columns in order, and
\* the cells written since it was read, each with the kind of value written.
\* A cell not written holds the value the file has for that row and column.
NoFrame == [index |-> << >>, columns |-> << >>, edits |-> {}]

FrameNames ==
    {"data", "test_data", "X_test", "y_test", "X_noisy", "X_missing", "test_sample"}

NoFrames == [f \in FrameNames |-> NoFrame]

NoBattery == [op |-> "none", caller |-> "", raised |-> FALSE]

\* pd.read_csv of a file of n rows: a RangeIndex from 0.
ReadCsv(n, columns) ==
    [index |-> [i \in 1..n |-> i - 1], columns |-> columns, edits |-> {}]

\* What the file holds for a row and a column.
FileValue(label, column) ==
    IF column = "price" THEN label
    ELSE IF column = "sqft" THEN 1000 + 100 * (label % 4)
    ELSE 1 + (label % 3)

Rows(frame) == {frame.index[i] : i \in DOMAIN frame.index}

\* frame.iloc[a:b] with 0 <= a <= b, as Python slices.
ILoc(frame, a, b) ==
    LET last == IF b < Len(frame.index) THEN b ELSE Len(frame.index)
        index == SubSeq(frame.index, a + 1, last)
    IN  [ index |-> index,
          columns |-> frame.columns,
          edits |-> {e \in frame.edits : e[1] \in {index[i] : i \in DOMAIN index}} ]

\* Mutant: the first n rows.
DataHead(frame, n) == ILoc(frame, 0, n)

\* DataFrame.tail(n): iloc[0:0] for n = 0, iloc[-n:] otherwise.
DataTail(frame, n) ==
    IF n = 0 THEN ILoc(frame, 0, 0)
    ELSE ILoc(frame, Len(frame.index) - n, Len(frame.index))

\* [col for col in columns if col != target_col]
FeatureCols(columns, target_col) ==
    SelectSeq(columns, LAMBDA col : col # target_col)

\* frame[cols]: a new frame with these columns.
SelectColumns(frame, cols) ==
    [ index |-> frame.index,
      columns |-> cols,
      edits |-> {e \in frame.edits : e[2] \in {cols[i] : i \in DOMAIN cols}} ]

\* The held-out split both validations take: the last 20% of the rows, the
\* target column apart from the others.
HeldOut(fr) ==
    LET data == fr["data"]
        test_size == SplitSize(Len(data.index))
        test_data == DataTail(data, test_size)
        feature_cols == FeatureCols(test_data.columns, TargetVariable)
    IN  [ frames |-> [fr EXCEPT !["test_data"] = test_data,
                                !["X_test"] = SelectColumns(test_data, feature_cols),
                                !["y_test"] = SelectColumns(test_data, << TargetVariable >>)],
          test_size |-> test_size,
          feature_cols |-> feature_cols ]

Prepare(caller) ==
    /\ battery.op = "none"
    /\ frames' = HeldOut(frames).frames
    /\ battery' = [ op |-> "prepare", caller |-> caller, raised |-> FALSE,
                    test_size |-> HeldOut(frames).test_size,
                    feature_cols |-> HeldOut(frames).feature_cols ]
    /\ UNCHANGED commandVars

\* run_all_validations up to the batteries.
ValidatorPrepare == Prepare("validator")

\* validate_model from the reading of the featured data to the prediction.
OrchestratorPrepare == Prepare("orchestrator")

\* The validator has come through this step of run_all_validations.
Ran(op) == battery.caller = "validator" /\ battery.op = op /\ ~battery.raised

\* ------------------------------------------------------ statistical_tests

\* The model's errors on the test rows, repeated along the rows: the
\* prediction of a row is its target plus its error.
ErrorPatterns ==
    UNION { [1..k -> {-1, 0, 1}] : k \in 1..3 }

Cycle(pattern, i) == pattern[((i - 1) % Len(pattern)) + 1]

\* The target of each test row, in order.
Targets(y) == [i \in DOMAIN y.index |-> FileValue(y.index[i], TargetVariable)]

\* np.argsort(values): the orders of the positions that put the values in
\* ascending order; equal values come in any order.
RECURSIVE ArgsortOf(_, _)
ArgsortOf(values, S) ==
    IF S = {} THEN { << >> }
    ELSE UNION { { << i >> \o rest : rest \in ArgsortOf(values, S \ {i}) } :
                 i \in {j \in S : \A k \in S : values[j] <= values[k]} }

Argsort(values) == ArgsortOf(values, DOMAIN values)

NGroups == 3

\* Mutant: every group has group_size elements.
GroupSliceEqual(sorted_idx, i, group_size) ==
    SubSeq(sorted_idx, i * group_size + 1, (i + 1) * group_size)

\* pred_sorted_idx[i*group_size:(i+1)*group_size] for every group but the
\* last, pred_sorted_idx[i*group_size:] for the last.
GroupSlice(sorted_idx, i, group_size) ==
    IF i < NGroups - 1
    THEN SubSeq(sorted_idx, i * group_size + 1, (i + 1) * group_size)
    ELSE SubSeq(sorted_idx, i * group_size + 1, Len(sorted_idx))

RECURSIVE SumSquares(_, _)
SumSquares(values, n) ==
    IF n = 0 THEN 0 ELSE SumSquares(values, n - 1) + values[n] * values[n]

\* residuals.diff().dropna()
Diff(values) == [i \in 1..(Len(values) - 1) |-> values[i + 1] - values[i]]

\* _durbin_watson: (diff ** 2).sum() / (residuals ** 2).sum(), kept as the
\* two sums.
DurbinWatson(residuals) ==
    [ num |-> IF Len(residuals) = 0 THEN 0
              ELSE SumSquares(Diff(residuals), Len(residuals) - 1),
      den |-> SumSquares(residuals, Len(residuals)) ]

\* Mutant: the bounds of the band count as no autocorrelation.
NoAutocorrelationInclusive(dw) ==
    dw.den # 0 /\ 3 * dw.den <= 2 * dw.num /\ 2 * dw.num <= 5 * dw.den

\* 1.5 < dw_stat < 2.5; a division of zero by zero is NaN and compares false.
NoAutocorrelation(dw) ==
    dw.den # 0 /\ 3 * dw.den < 2 * dw.num /\ 2 * dw.num < 5 * dw.den

StatisticalBattery ==
    /\ Ran("prepare")
    /\ \E errors \in ErrorPatterns, small \in SmallSampleOutcomes,
          normal \in BOOLEAN, equal_variance \in BOOLEAN :
         LET y_test == Targets(frames["y_test"])
             n == Len(y_test)
             y_pred == [i \in 1..n |-> y_test[i] + Cycle(errors, i)]
             residuals == [i \in 1..n |-> y_test[i] - y_pred[i]]
             group_size == n \div NGroups
             dw == DurbinWatson(residuals)
         IN  IF n = 0 \/ (n < 3 /\ small = "raise")
             THEN battery' = [ op |-> "statistical_tests", caller |-> "validator",
                               raised |-> TRUE ]
             ELSE \E pred_sorted_idx \in Argsort(y_pred) :
                    battery' =
                        [ op |-> "statistical_tests", caller |-> "validator",
                          raised |-> FALSE,
                          y_pred |-> y_pred,
                          residuals |-> residuals,
                          pred_sorted_idx |-> pred_sorted_idx,
                          variance_groups |->
                              [i \in 0..(NGroups - 1) |->
                                  GroupSlice(pred_sorted_idx, i, group_size)],
                          levene_groups |->
                              [i \in 0..(NGroups - 1) |->
                                  GroupSlice(pred_sorted_idx, i, group_size)],
                          is_normal |-> n >= 3 /\ normal,
                          is_homoscedastic |-> n >= 3 /\ equal_variance,
                          durbin_watson |-> dw,
                          no_autocorrelation |-> NoAutocorrelation(dw) ]
    /\ UNCHANGED << commandVars, frames >>

\* ------------------------------------- robustness, consistency, benchmarks

\* Mutant: the local name refers to the frame copied.
CopyAlias(fr, source, local) == [frames |-> fr, ref |-> source]

\* local = source.copy(): a new frame with the cells of the source; what is
\* written through the local name goes to the frame ref.
Copy(fr, source, local) ==
    [frames |-> [fr EXCEPT ![local] = fr[source]], ref |-> local]

\* frame.loc[label, column] = value
SetCell(fr, ref, label, column, kind) ==
    [fr EXCEPT ![ref].edits =
        {e \in @ : ~(e[1] = label /\ e[2] = column)} \cup {<< label, column, kind >>}]

\* frame[column] = values, for each of the columns
SetColumns(fr, ref, columns, kind) ==
    [fr EXCEPT ![ref].edits =
        {e \in @ : e[2] \notin columns}
            \cup {<< label, column, kind >> : label \in Rows(fr[ref]), column \in columns}]

\* local = frame.fillna(frame.median()): a new frame, the missing cells
\* holding the median of their column.
FillNa(fr, ref, local) ==
    [fr EXCEPT ![local] =
        [fr[ref] EXCEPT !.edits =
            {IF e[3] = "nan" THEN << e[1], e[2], "median" >> ELSE e : e \in @}]]

\* The locals of a call go with its return.
Return(fr, locals) == [f \in FrameNames |-> IF f \in locals THEN NoFrame ELSE fr[f]]

\* X_test.select_dtypes(include=[np.number]).columns
NumericalCols(frame) == {frame.columns[i] : i \in DOMAIN frame.columns}

NoiseLevels == << 1, 5, 10 >>

MissingPcts == << 5, 10 >>

\* One round of the noise loop.
NoiseRound(fr) ==
    LET X_noisy == Copy(fr, "X_test", "X_noisy")
    IN  SetColumns(X_noisy.frames, X_noisy.ref, NumericalCols(fr["X_test"]), "noisy")

RECURSIVE NoiseRounds(_, _)
NoiseRounds(fr, k) ==
    IF k = 0 THEN fr ELSE NoiseRound(NoiseRounds(fr, k - 1))

\* int(len(X_test) * missing_pct), the percentage a whole number
NMissing(n_rows, pct) == (n_rows * pct) \div 100

\* The cells a round of the missing-value loop may draw.
Cells(frame) == Rows(frame) \X NumericalCols(frame)

RECURSIVE SetMissing(_, _, _, _)
SetMissing(fr, ref, draws, k) ==
    IF k = 0 THEN fr
    ELSE SetCell(SetMissing(fr, ref, draws, k - 1), ref, draws[k][1], draws[k][2], "nan")

\* One round of the missing-value loop, for the cells drawn.
MissingRound(fr, draws) ==
    LET X_missing == Copy(fr, "X_test", "X_missing")
    IN  IF NumericalCols(fr["X_test"]) = {} THEN X_missing.frames
        ELSE FillNa(SetMissing(X_missing.frames, X_missing.ref, draws, Len(draws)),
                    X_missing.ref, "X_missing")

RobustnessBattery ==
    /\ Ran("statistical_tests")
    /\ \E robust \in RobustOutcomes :
         LET X_test == frames["X_test"]
             n == Len(X_test.index)
         IN  IF n = 0 \/ robust = "raise"
             THEN /\ battery' = [ op |-> "robustness_tests", caller |-> "validator",
                                  raised |-> TRUE ]
                  /\ frames' = frames
             ELSE \E draws5 \in [1..NMissing(n, MissingPcts[1]) -> Cells(X_test)],
                     draws10 \in [1..NMissing(n, MissingPcts[2]) -> Cells(X_test)] :
                    LET noisy == NoiseRounds(frames, Len(NoiseLevels))
                        missing == MissingRound(MissingRound(noisy, draws5), draws10)
                    IN  /\ frames' = Return(missing, {"X_noisy", "X_missing"})
                        /\ battery' =
                             [ op |-> "robustness_tests", caller |-> "validator",
                               raised |-> FALSE,
                               results |-> RobustnessTests(robust),
                               draws |-> << draws5, draws10 >> ]
    /\ UNCHANGED commandVars

\* The changes from one prediction of the sweep to the next.
StepVectors == [1..9 -> {-1, 1}] \cup [1..9 -> {0, 1}]

\* np.linspace(lo, hi, num), in units of 1/(num - 1)
Linspace(lo, hi, num) == [i \in 1..num |-> (num - 1) * lo + (i - 1) * (hi - lo)]

ColumnValues(frame, column) == {FileValue(label, column) : label \in Rows(frame)}

ColumnMin(frame, column) ==
    CHOOSE v \in ColumnValues(frame, column) :
        \A w \in ColumnValues(frame, column) : v <= w

ColumnMax(frame, column) == Max(ColumnValues(frame, column))

\* Mutant: a prediction that stays the same counts as an increase.
IncreasesOrEqual(predictions) ==
    Cardinality({i \in 2..Len(predictions) : predictions[i] >= predictions[i - 1]})

\* sum(1 for i in range(1, len(predictions)) if predictions[i] > predictions[i-1])
Increases(predictions) ==
    Cardinality({i \in 2..Len(predictions) : predictions[i] > predictions[i - 1]})

RECURSIVE Sweep(_, _, _)
Sweep(fr, ref, k) ==
    IF k = 0 THEN fr ELSE SetColumns(Sweep(fr, ref, k - 1), ref, {"sqft"}, "sweep")

RECURSIVE Sum(_, _)
Sum(values, n) == IF n = 0 THEN 0 ELSE Sum(values, n - 1) + values[n]

\* increases / (len(predictions) - 1) > 0.7
IsMonotonic(increases, total_comparisons) == 10 * increases > 7 * total_comparisons

\* The monotonicity probe: the first test row, its sqft set to each of ten
\* values in turn, predicted each time.
SqftMonotonicity(predictions) ==
    [ sqft_monotonicity |->
        [ increases |-> Increases(predictions),
          total_comparisons |-> Len(predictions) - 1,
          is_monotonic |-> IsMonotonic(Increases(predictions), Len(predictions) - 1) ] ]

ConsistencyBattery ==
    /\ Ran("robustness_tests")
    /\ \E pred1 \in FirstPredictions, pred2 \in RepeatPredictions, steps \in StepVectors :
         LET X_test == frames["X_test"]
             has_sqft == \E i \in DOMAIN X_test.columns : X_test.columns[i] = "sqft"
             sliced == [frames EXCEPT !["test_sample"] = ILoc(X_test, 0, 1)]
             test_sample == Copy(sliced, "test_sample", "test_sample")
             sqft_values == Linspace(ColumnMin(X_test, "sqft"), ColumnMax(X_test, "sqft"), 10)
             predictions == [i \in 1..Len(sqft_values) |-> Sum(steps, i - 1)]
             determinism ==
                 PredictionConsistencyTests([pred1 |-> pred1, pred2 |-> pred2]).determinism
         IN  IF Len(X_test.index) = 0
             THEN /\ battery' = [ op |-> "prediction_consistency_tests",
                                  caller |-> "validator", raised |-> TRUE ]
                  /\ frames' = frames
             ELSE IF has_sqft
             THEN /\ frames' = Return(Sweep(test_sample.frames, test_sample.ref,
                                            Len(sqft_values)),
                                      {"test_sample"})
                  /\ battery' =
                       [ op |-> "prediction_consistency_tests",
                         caller |-> "validator", raised |-> FALSE,
                         determinism |-> determinism,
                         monotonicity |-> SqftMonotonicity(predictions),
                         probe |-> [ rows |-> test_sample.frames[test_sample.ref].index,
                                     sqft_values |-> sqft_values,
                                     predictions |-> predictions ] ]
             ELSE /\ frames' = frames
                  /\ battery' =
                       [ op |-> "prediction_consistency_tests",
                         caller |-> "validator", raised |-> FALSE,
                         determinism |-> determinism,
                         monotonicity |-> << >>,
                         probe |-> << >> ]
    /\ UNCHANGED commandVars

BatchSizes == {10, 100, 1000}

Benchmarks ==
    /\ Ran("prediction_consistency_tests")
    /\ \E mean_time_ms \in TimeValues :
         IF Len(frames["X_test"].index) = 0
         THEN battery' = [ op |-> "performance_benchmarks", caller |-> "validator",
                           raised |-> TRUE ]
         ELSE battery' =
                [ op |-> "performance_benchmarks", caller |-> "validator",
                  raised |-> FALSE,
                  results |-> PerformanceBenchmarks(Thresholds,
                                                    [mean_time_ms |-> mean_time_ms]),
                  batch_prediction |->
                      {size \in BatchSizes : Len(frames["X_test"].index) >= size} ]
    /\ UNCHANGED << commandVars, frames >>

\* ----------------------------------------------------------- specification

\* No command has run yet.
InitCommands ==
    /\ pc = "NotStarted"
    /\ pipeline_results = NoRecord
    /\ invoked = << >>
    /\ evaluated = [n_samples |-> 0]
    /\ written = {}
    /\ config = NoConfig
    /\ model_file = "absent"
    /\ registry = EmptyRegistry
    /\ last_call = NoCall
    /\ vpc = "idle"
    /\ validator = NoValidator
    /\ report = << >>

Init ==
    /\ InitCommands
    /\ frames = NoFrames
    /\ battery = NoBattery

Next ==
    \/ StartRun
    \/ Exit
    \/ DataProcessing
    \/ FeatureEngineering
    \/ ModelTraining
    \/ Validating
    \/ Registering
    \/ PromoteModel
    \/ RegisterModel
    \/ ArchiveOldVersions

Spec == Init /\ [][Next]_vars

\* The validate command alone.
NextValidator ==
    \/ ValidatorInit
    \/ RunAllValidations
    \/ Exit

SpecValidator == Init /\ [][NextValidator]_vars

\* The validate command, its report handed to ModelRegistry.register_model.
NextRegister ==
    \/ ValidatorInit
    \/ RunAllValidations
    \/ RegisterReport
    \/ Exit

SpecRegister == Init /\ [][NextRegister]_vars

\* The run command and the validate command, the two that validate a model.
NextValidation ==
    \/ StartRun
    \/ DataProcessing
    \/ FeatureEngineering
    \/ ModelTraining
    \/ Validating
    \/ Registering
    \/ ValidatorInit
    \/ RunAllValidations
    \/ Exit

SpecValidation == Init /\ [][NextValidation]_vars

\* The validation of one dataset, step by step: the dataset is any of the
\* row counts and column lists tried.
InitBatteries ==
    /\ InitCommands
    /\ \E n \in RowCounts, columns \in ColumnLists :
         frames = [NoFrames EXCEPT !["data"] = ReadCsv(n, columns)]
    /\ battery = NoBattery

NextBatteries ==
    \/ ValidatorPrepare
    \/ OrchestratorPrepare
    \/ StatisticalBattery
    \/ RobustnessBattery
    \/ ConsistencyBattery
    \/ Benchmarks

SpecBatteries == InitBatteries /\ [][NextBatteries]_vars


\* ------------------------------------------------------------------ claims

Completed == pipeline_results.steps_completed

Failed == pipeline_results.steps_failed

\* C1: when a stage reports failure, the run halts with that stage as the one
\* failed stage of the record, and the stages called in the run are exactly
\* the stages up to it: no later stage is called.
C1_FailureHaltsRun ==
    /\ Len(Failed) <= 1
    /\ \A k \in 1..Len(StageOrder) :
         Failed = << StageOrder[k] >> =>
           /\ pc = "Returned"
           /\ invoked = SubSeq(StageOrder, 1, k)
    /\ (pc # "Raised" /\ Len(invoked) > Len(Completed)) =>
           Failed = << invoked[Len(invoked)] >>

C1_Witness ==
    /\ Failed = << "data_processing" >>
    /\ invoked = << "data_processing" >>
    /\ pc = "Returned"

\* C2: a run whose validation did not pass ends failed at validation, has
\* not called the registration, has created no model version and moved none
\* to Staging, and its record holds the validation results.
C2_FailedValidationWritesNothing ==
    (pc = "Returned" /\ Failed = << "model_validation" >>) =>
        /\ "model_registration" \notin {invoked[i] : i \in DOMAIN invoked}
        /\ "validation_results" \in DOMAIN pipeline_results
        /\ written = {}

\* The verdict ModelValidator.run_all_validations gives the model and split
\* that validate_model measured.
ValidatorVerdict(ev) ==
    ValidationReport(Thresholds, ev.profile, ev.n_samples,
                     [is_normal |-> TRUE, is_homoscedastic |-> TRUE,
                      no_autocorrelation |-> TRUE],
                     "robust").overall_validation.passed

\* C3: a finished run called the registration exactly when the Validator's
\* overall verdict on the validated model is passed.
C3_RegistersIffValidatorPasses ==
    (pc = "Returned" /\ "profile" \in DOMAIN evaluated) =>
        (("model_registration" \in {invoked[i] : i \in DOMAIN invoked})
            <=> ValidatorVerdict(evaluated))

\* C4: in every report, the overall verdict is the conjunction of the
\* performance, determinism and speed sub-verdicts, whatever the statistical
\* and robustness outcomes are.
C4_OverallIsConjunction ==
    vpc = "reported" =>
        LET o == report.overall_validation
        IN  /\ o.performance_passed = report.performance.all_performance_checks_passed
            /\ o.determinism_passed = report.consistency.determinism.identical_predictions
            /\ o.speed_passed = report.benchmarks.single_prediction.meets_threshold
            /\ o.passed = (o.performance_passed /\ o.determinism_passed /\ o.speed_passed)

C4_Witness ==
    /\ vpc = "reported"
    /\ report.overall_validation.passed
    /\ ~report.statistical.residuals_normality.is_normal
    /\ ~report.statistical.homoscedasticity.is_homoscedastic
    /\ ~report.statistical.autocorrelation.no_autocorrelation
    /\ ~report.robustness.noise_robustness.robust

IsPrefix(s, t) == Len(s) <= Len(t) /\ \A i \in 1..Len(s) : s[i] = t[i]

\* C5: the stages called in a run are a prefix of the fixed order (each at
\* most once, none before its predecessors), every stage before the last one
\* called has reported success, and no stage runs once a failure is recorded.
C5_SequentialNoRetry ==
    /\ IsPrefix(invoked, StageOrder)
    /\ \A i \in 1..(Len(invoked) - 1) :
         i <= Len(Completed) /\ Completed[i] = invoked[i]
    /\ Failed # << >> => pc \in {"Returned", "NotStarted"}

C5_Witness ==
    /\ invoked = StageOrder
    /\ Completed = StageOrder
    /\ pipeline_results.overall_success

\* C6: when the registration fails after a passed validation, the run ends
\* with model_registration as the failed stage and model_validation among
\* the completed ones, overall_success is false, the registration was called
\* once, and the version it had created is still in the registry.
C6_RegistrationFailureSurfaced ==
    Failed = << "model_registration" >> =>
        /\ pc = "Returned"
        /\ Completed = SubSeq(StageOrder, 1, 4)
        /\ ~pipeline_results.overall_success
        /\ invoked = StageOrder
        /\ last_call.op = "register_model_in_mlflow"
        /\ last_call.version = 0
        /\ last_call.created # 0 =>
             /\ last_call.created \in DOMAIN registry[OrchestratorModelName]
             /\ registry[OrchestratorModelName][last_call.created].stage = "None"

C6_Witness ==
    /\ Failed = << "model_registration" >>
    /\ last_call.created # 0
    /\ pipeline_results.validation_results.validation_passed

PromoteSucceeded ==
    /\ pc = "CliDone"
    /\ last_call.op = "promote_model"
    /\ last_call.result

\* C7: after a successful promote_model(name, v, stage), v is in the target
\* stage, every other version of the model that held the target stage before
\* the call is Archived, and the versions in other stages are as before.
C7_PromoteArchivesHolders ==
    PromoteSucceeded =>
        LET now == registry[last_call.name]
            before == last_call.before
        IN  /\ DOMAIN now = DOMAIN before
            /\ last_call.version \in DOMAIN now
            /\ now[last_call.version].stage = last_call.stage
            /\ \A w \in DOMAIN before \ {last_call.version} :
                 IF before[w].stage = last_call.stage
                 THEN now[w].stage = "Archived"
                 ELSE now[w] = before[w]

C7_Witness ==
    /\ PromoteSucceeded
    /\ \E w \in DOMAIN last_call.before \ {last_call.version} :
         /\ last_call.before[w].stage = last_call.stage
         /\ registry[last_call.name][w].stage = "Archived"
    /\ \E w \in DOMAIN last_call.before \ {last_call.version} :
         /\ last_call.before[w].stage \notin {last_call.stage, "Archived"}
         /\ registry[last_call.name][w] = last_call.before[w]

StageOf(reg, n, v) == reg[n][v].stage

\* C8, as claimed: once a version is Archived, no step changes its stage.
C8_ArchivedIsTerminal ==
    [][\A n \in ModelNames : \A v \in DOMAIN registry[n] :
          StageOf(registry, n, v) = "Archived" =>
              StageOf(registry', n, v) = "Archived"]_vars

\* C8, amended: an Archived version's stage changes only in a promote_model
\* call that names that version; register_model, archive_old_versions, the
\* pipeline's registration and the training stage leave it Archived.
C8_ArchivedLeftOnlyByPromote ==
    [][\A n \in ModelNames : \A v \in DOMAIN registry[n] :
          (StageOf(registry, n, v) = "Archived"
              /\ StageOf(registry', n, v) # "Archived") =>
              /\ last_call'.op = "promote_model"
              /\ last_call'.name = n
              /\ last_call'.version = v]_vars

C8_Witness ==
    /\ last_call.op = "register_model_in_mlflow"
    /\ last_call.version # 0
    /\ \E v \in DOMAIN registry[OrchestratorModelName] :
         StageOf(registry, OrchestratorModelName, v) = "Archived"

\* C9: register_model given the Validator's report tags the new version
\* passed and promotes it to Staging when the report's overall verdict is
\* passed, and tags it failed and leaves it in None otherwise.
C9_ReportVerdictDecidesRegistration ==
    (vpc = "reported" /\ last_call.op = "register_model" /\ last_call.version # 0) =>
        LET version == registry[last_call.name][last_call.version]
        IN  IF report.overall_validation.passed
            THEN /\ last_call.tag = << last_call.version, "passed" >>
                 /\ version.stage = "Staging"
            ELSE /\ last_call.tag = << last_call.version, "failed" >>
                 /\ version.stage = "None"

MeetsThreeThresholds(perf) ==
    /\ perf.n_samples = 100
    /\ perf.r2_score >= MinR2Score
    /\ perf.mae <= MaxMae
    /\ perf.rmse <= MaxRmse

\* C10, as claimed: on a 100-row split, R2 >= min_r2, MAE <= max_mae and
\* RMSE <= max_rmse give performance sub-verdict true.
C10_ThreeThresholdsSuffice ==
    (vpc = "reported" /\ MeetsThreeThresholds(report.performance)) =>
        report.performance.all_performance_checks_passed

\* C10, amended: on a 100-row split, R2 >= min_r2, MAE <= max_mae,
\* RMSE <= max_rmse and MAPE <= max_mape give performance sub-verdict true.
C10_FourThresholdsSuffice ==
    (vpc = "reported" /\ MeetsThreeThresholds(report.performance)
        /\ report.performance.mape <= MaxMape) =>
        report.performance.all_performance_checks_passed

C10_Witness ==
    /\ vpc = "reported"
    /\ report.performance.n_samples = 100
    /\ report.performance.r2_score = 90
    /\ report.performance.mae = 10000
    /\ report.performance.rmse = 14000
    /\ report.performance.mape <= MaxMape
    /\ report.performance.all_performance_checks_passed

\* C11: in every report whose MAE exceeds max_mae, the MAE check, the
\* performance sub-verdict and the overall verdict are false, whatever R2,
\* RMSE and the other batteries gave.
C11_MaeAboveMaxFails ==
    (vpc = "reported" /\ report.performance.mae > MaxMae) =>
        /\ ~report.performance.performance_checks.mae_check
        /\ ~report.performance.all_performance_checks_passed
        /\ ~report.overall_validation.performance_passed
        /\ ~report.overall_validation.passed

C11_Witness ==
    /\ vpc = "reported"
    /\ report.performance.mae = 16000
    /\ report.performance.r2_score = 90
    /\ report.performance.rmse = 14000
    /\ report.performance.mape = 10
    /\ report.performance.n_samples = 100
    /\ report.overall_validation.determinism_passed
    /\ report.overall_validation.speed_passed
    /\ ~report.overall_validation.passed

\* C12: the determinism check reports identical_predictions true with
\* max_difference 0 exactly when the two predict calls agree at every row;
\* when they differ it reports identical_predictions false, max_difference
\* the largest absolute row-wise difference, which is positive, and the
\* determinism sub-verdict and the overall verdict are false.
C12_DeterminismCheck ==
    vpc = "reported" =>
        LET d == report.consistency.determinism
            pred1 == evaluated.profile.pred1
            pred2 == evaluated.profile.pred2
            differences == {Abs(pred1[i] - pred2[i]) : i \in DOMAIN pred1}
        IN  IF \A i \in DOMAIN pred1 : pred1[i] = pred2[i]
            THEN /\ d.identical_predictions
                 /\ d.max_difference = 0
                 /\ report.overall_validation.determinism_passed
            ELSE /\ ~d.identical_predictions
                 /\ d.max_difference \in differences
                 /\ \A x \in differences : x <= d.max_difference
                 /\ d.max_difference > 0
                 /\ ~report.overall_validation.determinism_passed
                 /\ ~report.overall_validation.passed

C12_Witness ==
    /\ vpc = "reported"
    /\ evaluated.profile.pred1 = << 300000, 450000 >>
    /\ evaluated.profile.pred2 = << 299995, 450002 >>
    /\ report.consistency.determinism.max_difference = 5
    /\ report.overall_validation.performance_passed
    /\ ~report.overall_validation.passed

\* C13: when the statistical or the robustness battery raised, the
\* validation still returned a report that holds the results of the other
\* batteries and lacks only those of the battery that raised.
C13_BatteryErrorKeepsOtherResults ==
    (vpc = "raised" /\ validator.loaded
        /\ evaluated.raised \in {"statistical", "robustness"}) =>
        /\ {"performance", "statistical", "robustness", "consistency", "benchmarks"}
              \ {evaluated.raised} \subseteq DOMAIN report
        /\ evaluated.raised \notin DOMAIN report

\* C14: when an artifact is missing or does not load, the validate command
\* ends with no validator, no battery run and no report; in a pipeline run
\* the validation result is the not-passed error result without metrics, the
\* run ends failed at model_validation and the registration is not called.
C14_ArtifactFailureAbortsValidation ==
    /\ (vpc = "raised" /\ ~validator.loaded) =>
          /\ report = << >>
          /\ "profile" \notin DOMAIN evaluated
    /\ ("artifacts" \in DOMAIN evaluated /\ evaluated.artifacts # "loaded") =>
          /\ pc = "Returned"
          /\ pipeline_results.validation_results = ValidationError
          /\ ~pipeline_results.validation_results.validation_passed
          /\ "profile" \notin DOMAIN evaluated
          /\ Failed = << "model_validation" >>
          /\ invoked = SubSeq(StageOrder, 1, 4)
          /\ ~pipeline_results.overall_success

C14_Witness ==
    /\ pc = "Returned"
    /\ "artifacts" \in DOMAIN evaluated
    /\ evaluated.artifacts = "missing"
    /\ Completed = SubSeq(StageOrder, 1, 3)
    /\ Failed = << "model_validation" >>

\* C15: whenever the statistical battery is given fewer than three
\* residuals, it ends with an error and the validation holds no statistical
\* results.
C15_FewResidualsRaise ==
    (validator.loaded /\ vpc \in {"reported", "raised"}
        /\ evaluated.n_samples \in 1..2) =>
        /\ vpc = "raised"
        /\ evaluated.raised = "statistical"
        /\ "statistical" \notin DOMAIN report

\* C16: a run never stops without a returned record, and a returned record
\* is in exactly one of the two outcomes: overall_success with no failed
\* stage, or no overall_success with the one failed stage recorded.
C16_RunEndsWithRecord ==
    /\ pc # "Raised"
    /\ pc = "Returned" =>
          \/ pipeline_results.overall_success /\ Failed = << >>
          \/ ~pipeline_results.overall_success /\ Len(Failed) = 1

\* C17: every record run_full_pipeline returns carries the start timestamp
\* and the end timestamp.
C17_RecordHasBothTimestamps ==
    pc = "Returned" =>
        {"start_time", "end_time"} \subseteq DOMAIN pipeline_results

\* C18: the model a run has validated by its metrics is the file its own
\* training stage wrote, not one an earlier run left.
C18_ValidatesOwnArtifact ==
    (pc \in {"Registering", "Returned"} /\ "profile" \in DOMAIN evaluated) =>
        model_file = "fresh"

\* C19: in every state the completed stages are a prefix of the fixed order,
\* at most one stage is failed, no stage is in both lists, and the failed
\* stage is the one right after the last completed stage.
C19_RecordShape ==
    /\ IsPrefix(Completed, StageOrder)
    /\ Len(Failed) <= 1
    /\ \A i \in DOMAIN Completed : \A j \in DOMAIN Failed :
          Completed[i] # Failed[j]
    /\ Failed # << >> =>
          /\ Len(Completed) < Len(StageOrder)
          /\ Failed[1] = StageOrder[Len(Completed) + 1]

C19_Witness ==
    /\ Completed = << "data_processing", "feature_engineering" >>
    /\ Failed = << "model_training" >>

\* C20: in a returned record, overall_success holds exactly when no stage is
\* failed, which is exactly when all five stages are completed and the
\* record carries the model version; and in no state is overall_success
\* true without a stored validation result that passed.
C20_SuccessIffAllCompleted ==
    /\ pc = "Returned" =>
          /\ pipeline_results.overall_success <=> (Failed = << >>)
          /\ (Failed = << >>) <=>
                (Completed = StageOrder /\ "model_version" \in DOMAIN pipeline_results)
    /\ pipeline_results.overall_success =>
          /\ "validation_results" \in DOMAIN pipeline_results
          /\ pipeline_results.validation_results.validation_passed

C20_Witness ==
    /\ pc = "Returned"
    /\ pipeline_results.overall_success
    /\ Failed = << >>
    /\ "model_version" \in DOMAIN pipeline_results
    /\ pipeline_results.model_version
          \in DOMAIN registry[OrchestratorModelName]

\* C21: in every state, each model has at most one version in Staging and
\* at most one in Production.
C21_OneHolderPerStage ==
    \A n \in ModelNames :
        /\ Cardinality(VersionsIn(registry, n, "Staging")) <= 1
        /\ Cardinality(VersionsIn(registry, n, "Production")) <= 1

RegistrationReturned ==
    /\ last_call.op \in {"register_model_in_mlflow", "register_model"}
    /\ last_call.version # 0

\* C24: the version a registration returns is the one its own model logging
\* created, the newest of the model, and when the registration moved a
\* version to Staging it is that one.
C24_ReturnsOwnVersion ==
    RegistrationReturned =>
        /\ last_call.version = last_call.created
        /\ last_call.version = Len(registry[last_call.name])
        /\ last_call.op = "register_model_in_mlflow" =>
              registry[last_call.name][last_call.version].stage = "Staging"

C24_Witness ==
    /\ RegistrationReturned
    /\ registry[last_call.name][last_call.version].stage = "Staging"
    /\ \E v \in 1..(last_call.version - 1) :
          registry[last_call.name][v].stage = "None"

ArchiveReturnedTrue ==
    /\ pc = "CliDone"
    /\ last_call.op = "archive_old_versions"
    /\ last_call.result

\* The versions of a model that are not in Production or Staging.
Unprotected(versions) ==
    {v \in DOMAIN versions : versions[v].stage \notin {"Production", "Staging"}}

\* The n highest-numbered versions of a set.
Highest(S, n) == {v \in S : Cardinality({w \in S : w > v}) < n}

\* C25: after archive_old_versions(model, keep_latest) returned True, the
\* versions that were in Production or Staging are as before, the
\* keep_latest highest-numbered of the others are as before, and every other
\* version is Archived.
C25_ArchiveKeepsLatest ==
    ArchiveReturnedTrue =>
        LET now == registry[last_call.name]
            before == last_call.before
            kept == Highest(Unprotected(before), last_call.keep_latest)
        IN  /\ DOMAIN now = DOMAIN before
            /\ \A v \in DOMAIN before :
                  IF v \in Unprotected(before) \ kept
                  THEN now[v].stage = "Archived"
                  ELSE now[v] = before[v]

\* C26: archive_old_versions returns True only with every version it had
\* to archive in stage Archived, and returns False whenever the listing of
\* the versions failed.
C26_ArchiveTrueOnlyWhenDone ==
    (pc = "CliDone" /\ last_call.op = "archive_old_versions") =>
        /\ last_call.result =>
              \A v \in Unprotected(last_call.before)
                       \ Highest(Unprotected(last_call.before), last_call.keep_latest) :
                  registry[last_call.name][v].stage = "Archived"
        /\ ~last_call.listing_ok => ~last_call.result

\* C22: for a dataset of N rows, the rows both validations evaluate are the
\* last floor(N/5) rows of the dataset in their order, the features are
\* every column but the target in their order, and the target is the one
\* column of y.
C22_LastFifthInOrder ==
    battery.op = "prepare" =>
        LET data == frames["data"]
            N == Len(data.index)
            X == frames["X_test"]
            y == frames["y_test"]
            size == Len(X.index)
        IN  /\ 5 * size <= N
            /\ N < 5 * (size + 1)
            /\ battery.test_size = size
            /\ \A i \in 1..size : X.index[i] = data.index[N - size + i]
            /\ y.index = X.index
            /\ y.columns = << "price" >>
            /\ \A i \in DOMAIN X.columns : X.columns[i] # "price"
            /\ \A j \in DOMAIN data.columns :
                  data.columns[j] # "price" =>
                      \E i \in DOMAIN X.columns : X.columns[i] = data.columns[j]
            /\ \A i, j \in DOMAIN X.columns :
                  i < j =>
                      \E k, l \in DOMAIN data.columns :
                          /\ k < l
                          /\ data.columns[k] = X.columns[i]
                          /\ data.columns[l] = X.columns[j]
            /\ X.edits = {} /\ y.edits = {}

C22_Witness ==
    /\ battery.op = "prepare"
    /\ battery.caller = "orchestrator"
    /\ Len(frames["data"].index) = 50
    /\ frames["X_test"].index = << 40, 41, 42, 43, 44, 45, 46, 47, 48, 49 >>
    /\ frames["X_test"].columns = << "bedrooms", "sqft" >>

\* C27: the three groups of the homoscedasticity check are consecutive
\* slices of the residuals taken in ascending order of prediction, of
\* floor(n/3), floor(n/3) and n - 2*floor(n/3) residuals, which together
\* hold every residual once; the groups given to Levene's test are the
\* groups whose variances are reported.
C27_GroupsPartitionByPrediction ==
    (battery.op = "statistical_tests" /\ ~battery.raised) =>
        LET n == Len(battery.residuals)
            idx == battery.pred_sorted_idx
            g == battery.variance_groups
        IN  /\ Len(idx) = n
            /\ \A p \in 1..n : \E i \in 1..n : idx[i] = p
            /\ \A i \in 1..(n - 1) :
                  battery.y_pred[idx[i]] <= battery.y_pred[idx[i + 1]]
            /\ Len(g[0]) = n \div 3
            /\ Len(g[1]) = n \div 3
            /\ Len(g[2]) = n - 2 * (n \div 3)
            /\ g[0] \o g[1] \o g[2] = idx
            /\ battery.levene_groups = g

C27_Witness ==
    /\ battery.op = "statistical_tests"
    /\ ~battery.raised
    /\ Len(battery.residuals) = 5
    /\ battery.pred_sorted_idx = << 1, 3, 2, 4, 5 >>
    /\ Len(battery.variance_groups[2]) = 3

\* C28: for residuals that are not all zero the Durbin-Watson statistic is
\* the sum of the squared successive differences over the sum of the
\* squares, lies between 0 and 4, and no_autocorrelation is reported exactly
\* when it is strictly between 1.5 and 2.5.
C28_DurbinWatsonBand ==
    ( /\ battery.op = "statistical_tests"
      /\ ~battery.raised
      /\ \E i \in DOMAIN battery.residuals : battery.residuals[i] # 0 ) =>
        LET r == battery.residuals
            dw == battery.durbin_watson
        IN  /\ dw.den > 0
            /\ dw.den = SumSquares(r, Len(r))
            /\ dw.num = SumSquares([i \in 1..(Len(r) - 1) |-> r[i + 1] - r[i]],
                                    Len(r) - 1)
            /\ 0 <= dw.num
            /\ dw.num <= 4 * dw.den
            /\ battery.no_autocorrelation <=>
                  (2 * dw.num > 3 * dw.den /\ 2 * dw.num < 5 * dw.den)

C28_Witness ==
    /\ battery.op = "statistical_tests"
    /\ ~battery.raised
    /\ battery.residuals = << 1, -1, 0 >>
    /\ battery.durbin_watson = [num |-> 5, den |-> 2]
    /\ ~battery.no_autocorrelation

\* C23: after the robustness tests, the consistency tests with their
\* monotonicity probe, and the benchmarks, the test features and targets
\* the validator holds are the rows and cells of the dataset they were
\* taken from: no cell of them or of the dataset has been written.
C23_TestDataNotMutated ==
    ( /\ battery.caller = "validator"
      /\ battery.op \in {"robustness_tests", "prediction_consistency_tests",
                          "performance_benchmarks"} ) =>
        LET data == frames["data"]
            N == Len(data.index)
            size == N \div 5
        IN  /\ data = [index |-> [i \in 1..N |-> i - 1],
                       columns |-> data.columns, edits |-> {}]
            /\ frames["X_test"].edits = {}
            /\ frames["y_test"].edits = {}
            /\ frames["test_data"].edits = {}
            /\ frames["X_test"].index = [i \in 1..size |-> N - size + i - 1]
            /\ frames["y_test"].index = frames["X_test"].index
            /\ frames["test_data"].index = frames["X_test"].index
            /\ frames["y_test"].columns = << "price" >>
            /\ frames["X_test"].columns = FeatureCols(data.columns, "price")

C23_Witness ==
    /\ battery.op = "performance_benchmarks"
    /\ ~battery.raised
    /\ Len(frames["X_test"].index) = 10
    /\ frames["X_test"].columns = << "sqft", "bedrooms" >>
    /\ frames["X_test"].edits = {}

\* C29: the monotonicity probe runs exactly when the features have a sqft
\* column, and otherwise the monotonicity result is empty; it predicts the
\* first test row at ten evenly spaced sqft values from the smallest to the
\* largest sqft of the test set, and reports is_monotonic exactly when at
\* least seven of the nine successive predictions strictly increase.
C29_MonotonicityProbe ==
    (battery.op = "prediction_consistency_tests" /\ ~battery.raised) =>
        LET X == frames["X_test"]
            has_sqft == \E i \in DOMAIN X.columns : X.columns[i] = "sqft"
            sqft == {1000 + 100 * (X.index[i] % 4) : i \in DOMAIN X.index}
        IN  /\ has_sqft <=> DOMAIN battery.monotonicity # {}
            /\ has_sqft =>
                  LET m == battery.monotonicity.sqft_monotonicity
                      v == battery.probe.sqft_values
                      p == battery.probe.predictions
                      up == {i \in 1..9 : p[i + 1] > p[i]}
                  IN  /\ battery.probe.rows = << X.index[1] >>
                      /\ Len(v) = 10 /\ Len(p) = 10
                      /\ \A w \in sqft : 9 * w >= v[1] /\ 9 * w <= v[10]
                      /\ \E w \in sqft : 9 * w = v[1]
                      /\ \E w \in sqft : 9 * w = v[10]
                      /\ \A i \in 1..8 : v[i + 1] - v[i] = v[i + 2] - v[i + 1]
                      /\ m.total_comparisons = 9
                      /\ m.increases = Cardinality(up)
                      /\ m.is_monotonic <=> Cardinality(up) >= 7

C29_Witness ==
    /\ battery.op = "prediction_consistency_tests"
    /\ ~battery.raised
    /\ DOMAIN battery.monotonicity # {}
    /\ battery.monotonicity.sqft_monotonicity.increases = 7
    /\ battery.monotonicity.sqft_monotonicity.is_monotonic
    /\ \E i \in 1..9 : battery.probe.predictions[i + 1] = battery.probe.predictions[i]

\* C30: for each missing-value percentage p, the robustness test draws
\* floor(p * R * C) cells, R the rows and C the numeric columns of the
\* test features.
C30_DrawsPerCell ==
    (battery.op = "robustness_tests" /\ ~battery.raised) =>
        LET R == Len(frames["X_test"].index)
            C == Len(frames["X_test"].columns)
        IN  /\ Len(battery.draws[1]) = (5 * R * C) \div 100
            /\ Len(battery.draws[2]) = (10 * R * C) \div 100

=============================================================================
